---------------------------- MODULE Spec2Model ----------------------------
(***************************************************************************)
(* Model of twc17/workstation-interface-check:                             *)
(*   src/workstation-interface-check.py  (the compliance audit run)        *)
(*   src/modify_interfaces.py            (the interface reconfiguration)   *)
(*                                                                         *)
(* Text.  A Python str is modelled as a sequence over an alphabet whose    *)
(* letters are the words and the blank of the device's configuration      *)
(* language ("switchport", " ", "vlan", "50", ...).  Substring search,     *)
(* whitespace splitting, concatenation and len() are computed on these    *)
(* sequences as Python computes them on characters; CharLen gives the      *)
(* number of characters a letter stands for.                               *)
(***************************************************************************)
EXTENDS Integers, Sequences, FiniteSets, TLC

VARIABLES
    \* ---- the function under call (persistent_interface_data,
    \*      check_interface_config, get_id_and_template on one ConfigLineSet)
    fn_pc,            \* "pid" | "git" | "cic" | "end": which call is next
    fn_config,        \* the ConfigLineSet passed to the three functions
    fn_pid,           \* result of persistent_interface_data(fn_config)
    fn_cic,           \* result of check_interface_config(fn_config)
    fn_git,           \* result of get_id_and_template(fn_config)
    \* ---- configure_interface called repeatedly by one caller
    syn_loaded,       \* the template as the caller loaded it
    syn_config_list,  \* the caller's list object, passed as config_list
    syn_calls,        \* the calls made so far: arguments and what was sent
    \* ---- a run of modify_interfaces.py
    mod_pc,           \* position of main: "start" | "connect" | "enable" | "loop"
                      \*   | "done" (main returned) | "exited" (sys.exit) | "idle"
    PRETEND,          \* arguments['--pretend']
    interface_file,   \* the lines of the <interface_list> file
    INTERFACE_CONFIG, \* the list loaded from the <interface_config> file
    INTERFACE_LIST,   \* the list loaded from the <interface_list> file
    mod_i,            \* position of the for loop in INTERFACE_LIST
    mod_sent,         \* the commands handed to the device session, in order
    mod_log,          \* the entries written by write_log, in order
    mod_out,          \* per interface read: its attributes, the commands
                      \*   recorded in the log and the commands pushed
    mod_closed,       \* ssh.disconnect() returned
    \* ---- a run of workstation-interface-check.py
    aud_pc,           \* position of main: "loop" | "connect" | "enable"
                      \*   | "interfaces" | "configs" | "rows" | "disconnect"
                      \*   | "done" | "idle"
    switch_list,      \* the switches read from SWITCH_LIST
    aud_idx,          \* position of "for switch in switch_list"
    aud_interfaces,   \* interfaces, as get_workstation_interfaces returned it
    aud_k,            \* position of the for loop of get_interface_configs
    aud_configs,      \* configs, the dict being filled, in insertion order
    aud_report,       \* the rows written to workstation-interface-compliance.csv
    aud_log,          \* the entries written by write_log, in order
    aud_seen          \* per switch whose interfaces were listed: the list

fnVars == <<fn_pc, fn_config, fn_pid, fn_cic, fn_git>>
synVars == <<syn_loaded, syn_config_list, syn_calls>>
modVars == <<mod_pc, PRETEND, interface_file, INTERFACE_CONFIG, INTERFACE_LIST,
             mod_i, mod_sent, mod_log, mod_out, mod_closed>>

audVars == <<aud_pc, switch_list, aud_idx, aud_interfaces, aud_k, aud_configs,
             aud_report, aud_log, aud_seen>>

vars == <<fnVars, synVars, modVars, audVars>>

---------------------------------------------------------------------------
(* Bounds of the model *)

\* how many lines of AllLines a ConfigLineSet is drawn from
PoolSize == 13

\* how many times configure_interface is called on the caller's list
MaxCalls == 2

\* how many lines the <interface_list> file has at most
MaxFileLines == 2

\* how many switches the SWITCH_LIST file names at most
MaxSwitches == 3

---------------------------------------------------------------------------
(* Python str and list helpers *)

SP == " "

\* number of characters of each letter of the alphabet (len() of a str)
CharLen(a) ==
    CASE a \in {" ", "2", "3", "1", "4", "#", ","} -> 1
      [] a \in {"50", "60", "20", "no", "to", "Gi"} -> 2
      [] a \in {"100", "sw1", "sw2", "sw3"} -> 3
      [] a \in {"\n"} -> 1
      [] a \in {"vlan", "full", "VOIP", "DATA", "mode"} -> 4
      [] a \in {"speed", "event"} -> 5
      [] a \in {"source", "access", "duplex"} -> 6
      [] a \in {"1/0/1", "1/0/2"} -> 5
      [] a \in {"maximum", "logging"} -> 7
      [] a \in {"template", "portfast"} -> 8
      [] a \in {"interface"} -> 9
      [] a \in {"switchport", "Printer-3F"} -> 10
      [] a \in {"description", "link-status"} -> 11
      [] a \in {"spanning-tree", "port-security"} -> 13
      [] OTHER -> 2

\* len(s) for a str s
RECURSIVE StrLen(_)
StrLen(s) == IF s = <<>> THEN 0 ELSE CharLen(Head(s)) + StrLen(Tail(s))

\* str.find(sub): lowest offset at which sub occurs in s, or -1
Find(s, sub) ==
    LET hits == {k \in 0..(Len(s) - Len(sub)) : SubSeq(s, k + 1, k + Len(sub)) = sub}
    IN  IF hits = {} THEN -1 ELSE CHOOSE k \in hits : \A j \in hits : k <= j

\* sub in s
In(sub, s) == \E k \in 0..(Len(s) - Len(sub)) : SubSeq(s, k + 1, k + Len(sub)) = sub

NL == "\n"

IsSpace(a) == a \in {SP, NL}

\* str.split(): the maximal runs of non-whitespace letters, in order
RECURSIVE SplitFrom(_, _, _)
SplitFrom(s, cur, acc) ==
    IF s = <<>>
    THEN IF cur = <<>> THEN acc ELSE Append(acc, cur)
    ELSE IF IsSpace(Head(s))
         THEN SplitFrom(Tail(s), <<>>, IF cur = <<>> THEN acc ELSE Append(acc, cur))
         ELSE SplitFrom(Tail(s), Append(cur, Head(s)), acc)

Split(s) == SplitFrom(s, <<>>, <<>>)

\* str.split('\n'): the pieces between newlines, empty pieces kept
RECURSIVE SplitLinesFrom(_, _, _)
SplitLinesFrom(s, cur, acc) ==
    IF s = <<>> THEN Append(acc, cur)
    ELSE IF Head(s) = NL THEN SplitLinesFrom(Tail(s), <<>>, Append(acc, cur))
    ELSE SplitLinesFrom(Tail(s), Append(cur, Head(s)), acc)

SplitLines(s) == SplitLinesFrom(s, <<>>, <<>>)

\* str.strip()
RECURSIVE LStrip(_)
LStrip(s) == IF s # <<>> /\ IsSpace(Head(s)) THEN LStrip(Tail(s)) ELSE s

RECURSIVE RStrip(_)
RStrip(s) ==
    IF s # <<>> /\ IsSpace(s[Len(s)]) THEN RStrip(SubSeq(s, 1, Len(s) - 1)) ELSE s

Strip(s) == RStrip(LStrip(s))

\* str.replace(old, '') for a one-letter old
RECURSIVE Remove(_, _)
Remove(s, old) ==
    IF s = <<>> THEN <<>>
    ELSE (IF Head(s) = old THEN <<>> ELSE <<Head(s)>>) \o Remove(Tail(s), old)

\* the text a device prints for a sequence of lines
RECURSIVE JoinLines(_)
JoinLines(lines) ==
    IF lines = <<>> THEN <<>>
    ELSE IF Len(lines) = 1 THEN Head(lines)
    ELSE Head(lines) \o <<NL>> \o JoinLines(Tail(lines))

\* a Python value that is either the int default or a str token
PyInt(n) == [type |-> "int", int |-> n, str |-> <<>>]
PyStr(s) == [type |-> "str", int |-> 0, str |-> s]

\* '{}'.format(v)
Format(v) == IF v.type = "int" THEN <<ToString(v.int)>> ELSE v.str

\* words separated by single blanks
RECURSIVE Words(_)
Words(ws) ==
    IF ws = <<>> THEN <<>>
    ELSE IF Len(ws) = 1 THEN <<Head(ws)>>
    ELSE <<Head(ws), SP>> \o Words(Tail(ws))

Reverse(s) == [k \in 1..Len(s) |-> s[Len(s) + 1 - k]]

---------------------------------------------------------------------------
(* workstation-interface-check.py: the baseline profile *)

BASE_CONFIG == <<
    Words(<<"switchport", "access", "vlan">>),
    Words(<<"switchport", "port-security", "maximum">>),
    Words(<<"no", "logging", "event", "link-status">>),
    Words(<<"source", "template">>),
    Words(<<"spanning-tree", "portfast">>) >>

---------------------------------------------------------------------------
(* modify_interfaces.py: persistent_interface_data *)

\* item.split()[-1]; raises IndexError when the line has no token
LastToken(item) ==
    LET t == Split(item)
    IN  IF t = <<>> THEN [raised |-> TRUE, tok |-> <<>>]
        ELSE [raised |-> FALSE, tok |-> t[Len(t)]]

\* variant of PidStep that keeps the first match of each field
PidStep_FirstWins(st, item) ==
    IF st.raised THEN st
    ELSE LET d == IF Find(item, <<"description">>) # -1 /\ st.description = <<>>
                  THEN [st EXCEPT !.description = item] ELSE st
             v == IF Find(item, <<"vlan">>) # -1 /\ d.vlan.type = "int"
                  THEN IF LastToken(item).raised THEN [d EXCEPT !.raised = TRUE]
                       ELSE [d EXCEPT !.vlan = PyStr(LastToken(item).tok)]
                  ELSE d
         IN  IF v.raised THEN v
             ELSE IF Find(item, <<"maximum">>) # -1 /\ v.maximum.type = "int"
                  THEN IF LastToken(item).raised THEN [v EXCEPT !.raised = TRUE]
                       ELSE [v EXCEPT !.maximum = PyStr(LastToken(item).tok)]
                  ELSE v

\* one iteration of the for loop of persistent_interface_data.  The test
\* "item.find(..) is not -1" compares with the interned small int -1, which is
\* the comparison "!= -1" on the interpreters the script runs on.
PidStep(st, item) ==
    IF st.raised THEN st
    ELSE LET d == IF Find(item, <<"description">>) # -1
                  THEN [st EXCEPT !.description = item] ELSE st
             v == IF Find(item, <<"vlan">>) # -1
                  THEN IF LastToken(item).raised THEN [d EXCEPT !.raised = TRUE]
                       ELSE [d EXCEPT !.vlan = PyStr(LastToken(item).tok)]
                  ELSE d
         IN  IF v.raised THEN v
             ELSE IF Find(item, <<"maximum">>) # -1
                  THEN IF LastToken(item).raised THEN [v EXCEPT !.raised = TRUE]
                       ELSE [v EXCEPT !.maximum = PyStr(LastToken(item).tok)]
                  ELSE v

RECURSIVE PidLoop(_, _)
PidLoop(st, interface_config) ==
    IF interface_config = <<>> THEN st
    ELSE PidLoop(PidStep(st, Head(interface_config)), Tail(interface_config))

\* persistent_interface_data(interface_config): description, vlan, maximum,
\* and whether the call raised
persistent_interface_data(interface_config) ==
    PidLoop([raised |-> FALSE, description |-> <<>>,
             vlan |-> PyInt(1), maximum |-> PyInt(1)], interface_config)

---------------------------------------------------------------------------
(* workstation-interface-check.py: get_id_and_template, check_interface_config *)

\* variant of GitStep that keeps the first match of each field
GitStep_FirstWins(st, item) ==
    IF st.raised THEN st
    ELSE LET v == IF Find(item, BASE_CONFIG[1]) # -1 /\ st.vlan = <<"x">>
                  THEN IF LastToken(item).raised THEN [st EXCEPT !.raised = TRUE]
                       ELSE [st EXCEPT !.vlan = LastToken(item).tok]
                  ELSE st
         IN  IF v.raised THEN v
             ELSE IF Find(item, BASE_CONFIG[4]) # -1 /\ v.template = <<"x">>
                  THEN IF LastToken(item).raised THEN [v EXCEPT !.raised = TRUE]
                       ELSE [v EXCEPT !.template = LastToken(item).tok]
                  ELSE v

\* one iteration of the for loop of get_id_and_template
GitStep(st, item) ==
    IF st.raised THEN st
    ELSE LET v == IF Find(item, BASE_CONFIG[1]) # -1
                  THEN IF LastToken(item).raised THEN [st EXCEPT !.raised = TRUE]
                       ELSE [st EXCEPT !.vlan = LastToken(item).tok]
                  ELSE st
         IN  IF v.raised THEN v
             ELSE IF Find(item, BASE_CONFIG[4]) # -1
                  THEN IF LastToken(item).raised THEN [v EXCEPT !.raised = TRUE]
                       ELSE [v EXCEPT !.template = LastToken(item).tok]
                  ELSE v

RECURSIVE GitLoop(_, _)
GitLoop(st, interface) ==
    IF interface = <<>> THEN st
    ELSE GitLoop(GitStep(st, Head(interface)), Tail(interface))

\* get_id_and_template(interface): vlan, template ('x' when no line matches)
get_id_and_template(interface) ==
    GitLoop([raised |-> FALSE, vlan |-> <<"x">>, template |-> <<"x">>], interface)

\* any(frag in item for item in interface)
RECURSIVE AnyIn(_, _)
AnyIn(frag, interface) ==
    IF interface = <<>> THEN FALSE
    ELSE IF In(frag, Head(interface)) THEN TRUE
    ELSE AnyIn(frag, Tail(interface))

\* the for loop over BASE_CONFIG, from its k-th item: FALSE at the first
\* required fragment that no line holds
RECURSIVE RequiredFrom(_, _)
RequiredFrom(k, interface) ==
    IF k > Len(BASE_CONFIG) THEN TRUE
    ELSE IF AnyIn(BASE_CONFIG[k], interface) = FALSE THEN FALSE
    ELSE RequiredFrom(k + 1, interface)

\* variant of check_interface_config without the speed/duplex test
check_interface_config_NoForbidden(interface) == RequiredFrom(1, interface)

\* check_interface_config(interface)
check_interface_config(interface) ==
    IF ~RequiredFrom(1, interface) THEN FALSE
    ELSE IF AnyIn(<<"speed">>, interface) \/ AnyIn(<<"duplex">>, interface) THEN FALSE
    ELSE TRUE

---------------------------------------------------------------------------
(* The ConfigLineSets the functions are called on *)

AllLines == <<
    Words(<<"interface", "Gi">>) \o <<"1/0/1">>,
    Words(<<"description", "Printer-3F">>),
    Words(<<"switchport", "access", "vlan", "50">>),
    Words(<<"switchport", "port-security", "maximum", "2">>),
    <<SP>> \o Words(<<"no", "logging", "event", "link-status">>),
    <<SP>> \o Words(<<"source", "template", "VOIP">>),
    <<SP>> \o Words(<<"spanning-tree", "portfast">>),
    <<SP>> \o Words(<<"speed", "100">>),
    <<SP>> \o Words(<<"switchport", "access", "vlan", "60">>),
    <<>>,
    <<SP>> \o Words(<<"description", "to", "vlan", "20">>) \o <<SP>>,
    <<SP>> \o Words(<<"duplex", "full">>),
    <<SP>> \o Words(<<"source", "template", "DATA">>),
    <<SP>> \o Words(<<"switchport", "port-security", "maximum", "3">>) >>

Pool == SubSeq(AllLines, 1, IF PoolSize < Len(AllLines) THEN PoolSize ELSE Len(AllLines))

\* the lines of Pool at the positions of S, in Pool order
RECURSIVE Pick(_, _)
Pick(S, k) ==
    IF k > Len(Pool) THEN <<>>
    ELSE (IF k \in S THEN <<Pool[k]>> ELSE <<>>) \o Pick(S, k + 1)

\* every selection of Pool lines, in device order or reversed
ConfigLineSets ==
    {Pick(S, 1) : S \in SUBSET (1..Len(Pool))} \cup
    {Reverse(Pick(S, 1)) : S \in SUBSET (1..Len(Pool))}

NotCalled == [called |-> FALSE]

\* the groups of variables a specification does not use stay as they start
FnIdle ==
    /\ fn_pc = "end"
    /\ fn_config = <<>>
    /\ fn_pid = NotCalled
    /\ fn_cic = NotCalled
    /\ fn_git = NotCalled

SynIdle ==
    /\ syn_loaded = <<>>
    /\ syn_config_list = <<>>
    /\ syn_calls = <<>>

ModIdle ==
    /\ mod_pc = "idle"
    /\ PRETEND = FALSE
    /\ interface_file = <<>>
    /\ INTERFACE_CONFIG = <<>>
    /\ INTERFACE_LIST = <<>>
    /\ mod_i = 0
    /\ mod_sent = <<>>
    /\ mod_log = <<>>
    /\ mod_out = <<>>
    /\ mod_closed = FALSE

AudIdle ==
    /\ aud_pc = "idle"
    /\ switch_list = <<>>
    /\ aud_idx = 0
    /\ aud_interfaces = <<>>
    /\ aud_k = 0
    /\ aud_configs = <<>>
    /\ aud_report = <<>>
    /\ aud_log = <<>>
    /\ aud_seen = <<>>

FnInit ==
    /\ fn_pc = "pid"
    /\ fn_config \in ConfigLineSets
    /\ fn_pid = NotCalled
    /\ fn_cic = NotCalled
    /\ fn_git = NotCalled
    /\ SynIdle
    /\ ModIdle
    /\ AudIdle

CallPersistentInterfaceData ==
    /\ fn_pc = "pid"
    /\ fn_pid' = [called |-> TRUE, result |-> persistent_interface_data(fn_config)]
    /\ fn_pc' = "git"
    /\ UNCHANGED <<fn_config, fn_cic, fn_git, synVars, modVars, audVars>>

CallGetIdAndTemplate ==
    /\ fn_pc = "git"
    /\ fn_git' = [called |-> TRUE, result |-> get_id_and_template(fn_config)]
    /\ fn_pc' = "cic"
    /\ UNCHANGED <<fn_config, fn_pid, fn_cic, synVars, modVars, audVars>>

CallCheckInterfaceConfig ==
    /\ fn_pc = "cic"
    /\ fn_cic' = [called |-> TRUE, result |-> check_interface_config(fn_config)]
    /\ fn_pc' = "end"
    /\ UNCHANGED <<fn_config, fn_pid, fn_git, synVars, modVars, audVars>>

FnNext ==
    \/ CallPersistentInterfaceData
    \/ CallGetIdAndTemplate
    \/ CallCheckInterfaceConfig

SpecFn == FnInit /\ [][FnNext]_vars


---------------------------------------------------------------------------
(* Properties of the three functions, checked under SpecFn *)

\* the final whitespace-delimited token of a line that has one: the run of
\* non-blank letters that ends at the line's last non-blank letter
FinalToken(line) ==
    LET nb == {k \in 1..Len(line) : line[k] # SP}
        e  == CHOOSE k \in nb : \A j \in nb : j <= k
        b  == CHOOSE k \in 1..e :
                /\ \A j \in k..e : line[j] # SP
                /\ (k = 1 \/ line[k - 1] = SP)
    IN  SubSeq(line, b, e)

\* positions of the lines of cfg that contain frag
Matching(cfg, frag) == {i \in 1..Len(cfg) : In(frag, cfg[i])}

LastOf(S) == CHOOSE i \in S : \A j \in S : j <= i
FirstOf(S) == CHOOSE i \in S : \A j \in S : i <= j

ScenarioA == SubSeq(AllLines, 1, 4)

\* C7: persistent_interface_data never raises and returns the whole last line
\* containing 'description' (empty if none), the final token of the last line
\* containing 'vlan' (the int 1 if none) and the final token of the last line
\* containing 'maximum' (the int 1 if none).
C7_ExtractionContract ==
    fn_pid.called =>
        LET r == fn_pid.result
            D == Matching(fn_config, <<"description">>)
            V == Matching(fn_config, <<"vlan">>)
            M == Matching(fn_config, <<"maximum">>)
        IN  /\ r.raised = FALSE
            /\ r.description = IF D = {} THEN <<>> ELSE fn_config[LastOf(D)]
            /\ r.vlan = IF V = {} THEN PyInt(1)
                        ELSE PyStr(FinalToken(fn_config[LastOf(V)]))
            /\ r.maximum = IF M = {} THEN PyInt(1)
                           ELSE PyStr(FinalToken(fn_config[LastOf(M)]))
            /\ (D \cup V \cup M = {}) =>
                   r = [raised |-> FALSE, description |-> <<>>,
                        vlan |-> PyInt(1), maximum |-> PyInt(1)]
            /\ fn_config = ScenarioA =>
                   /\ r.description = Words(<<"description", "Printer-3F">>)
                   /\ r.vlan = PyStr(<<"50">>)
                   /\ r.maximum = PyStr(<<"2">>)

\* C7 witness: the function was called on a ConfigLineSet with two lines
\* containing 'vlan' that end in different tokens, and on one with none.
C7_Witness ==
    /\ fn_pid.called
    /\ Cardinality(Matching(fn_config, <<"vlan">>)) >= 2
    /\ Cardinality(Matching(fn_config, <<"description">>)) >= 2
    /\ Matching(fn_config, <<"maximum">>) # {}
    /\ fn_pid.result.vlan = PyStr(<<"50">>)
    /\ fn_config[1] # AllLines[3]

\* compliance as the baseline profile defines it
Compliant(cfg) ==
    /\ \A k \in 1..Len(BASE_CONFIG) : \E i \in 1..Len(cfg) : In(BASE_CONFIG[k], cfg[i])
    /\ ~ \E i \in 1..Len(cfg) : In(<<"speed">>, cfg[i]) \/ In(<<"duplex">>, cfg[i])

ForbiddenLines == {Words(<<"speed", "100">>), <<SP>> \o Words(<<"duplex", "full">>)}

\* C8: check_interface_config returns compliant iff every required fragment is
\* a substring of some line and no line contains 'speed' or 'duplex'; the line
\* order does not matter, and a forbidden line added to a compliant set makes
\* it non-compliant.
C8_ComplianceVerdict ==
    fn_cic.called =>
        /\ fn_cic.result = Compliant(fn_config)
        /\ check_interface_config(Reverse(fn_config)) = fn_cic.result
        /\ fn_cic.result =>
               \A f \in ForbiddenLines :
                   /\ check_interface_config(Append(fn_config, f)) = FALSE
                   /\ check_interface_config(<<f>> \o fn_config) = FALSE
        /\ (\E k \in 1..Len(BASE_CONFIG) : Matching(fn_config, BASE_CONFIG[k]) = {})
               => fn_cic.result = FALSE

\* C8 witness: a compliant verdict on a ConfigLineSet whose lines are not in
\* the device's order.
C8_Witness ==
    /\ fn_cic.called
    /\ fn_cic.result = TRUE
    /\ Len(fn_config) > Len(BASE_CONFIG)
    /\ In(BASE_CONFIG[5], fn_config[1])

\* C10 as stated: the VLAN id is the last token of the FIRST line containing
\* 'switchport access vlan' and the template name the last token of the FIRST
\* line containing 'source template' ('x' when no line matches).
C10_FirstMatch ==
    fn_git.called =>
        LET r == fn_git.result
            V == Matching(fn_config, BASE_CONFIG[1])
            T == Matching(fn_config, BASE_CONFIG[4])
        IN  /\ r.vlan = IF V = {} THEN <<"x">> ELSE FinalToken(fn_config[FirstOf(V)])
            /\ r.template = IF T = {} THEN <<"x">> ELSE FinalToken(fn_config[FirstOf(T)])

\* C10 amended: the VLAN id is the last token of the LAST line containing
\* 'switchport access vlan' and the template name the last token of the LAST
\* line containing 'source template', each 'x' when no line matches; the
\* verdict computed afterwards is the compliance of the ConfigLineSet alone.
C10_LastMatch ==
    /\ fn_git.called =>
        LET r == fn_git.result
            V == Matching(fn_config, BASE_CONFIG[1])
            T == Matching(fn_config, BASE_CONFIG[4])
        IN  /\ r.raised = FALSE
            /\ r.vlan = IF V = {} THEN <<"x">> ELSE FinalToken(fn_config[LastOf(V)])
            /\ r.template = IF T = {} THEN <<"x">> ELSE FinalToken(fn_config[LastOf(T)])
    /\ (fn_git.called /\ fn_cic.called) => fn_cic.result = Compliant(fn_config)

\* C10 witness: two lines contain 'switchport access vlan' with different
\* tokens and two contain 'source template', and the later ones were returned.
C10_Witness ==
    /\ fn_git.called
    /\ Cardinality(Matching(fn_config, BASE_CONFIG[1])) = 2
    /\ Cardinality(Matching(fn_config, BASE_CONFIG[4])) = 2
    /\ fn_git.result.vlan = <<"60">>
    /\ fn_git.result.template = <<"DATA">>

---------------------------------------------------------------------------
(* modify_interfaces.py: configure_interface *)

InterfaceCmd(interface) == <<"interface", SP>> \o interface
VlanCmd(vlan) == Words(<<"switchport", "access", "vlan">>) \o <<SP>> \o Format(vlan)
MaximumCmd(maximum) ==
    Words(<<"switchport", "port-security", "maximum">>) \o <<SP>> \o Format(maximum)

\* variant of configure_interface that puts the description before the template
configure_interface_DescriptionFirst(config_list, interface, description, vlan, maximum) ==
    LET a == <<InterfaceCmd(interface)>>
        b == IF StrLen(description) > 1 THEN Append(a, description) ELSE a
    IN  b \o config_list \o <<VlanCmd(vlan), MaximumCmd(maximum)>>

\* configure_interface(config_list, interface, description, vlan, maximum, ssh):
\* the list object config_list after the call, which is also the command set
\* handed to ssh.send_config_set
configure_interface(config_list, interface, description, vlan, maximum) ==
    LET a == <<InterfaceCmd(interface)>> \o config_list
        b == IF StrLen(description) > 1 THEN Append(a, description) ELSE a
        c == Append(b, VlanCmd(vlan))
    IN  Append(c, MaximumCmd(maximum))

Gi1 == <<"Gi", "1/0/1">>
Gi2 == <<"Gi", "1/0/2">>

Interfaces == {Gi1, Gi2}

TemplateLine1 == Words(<<"switchport", "mode", "access">>) \o <<NL>>
TemplateLine2 == Words(<<"spanning-tree", "portfast">>) \o <<NL>>

Templates == {<<>>, <<TemplateLine1>>, <<TemplateLine1, TemplateLine2>>}

\* the running configurations the persistent attributes are extracted from
AttributeSources ==
    { <<>>,
      ScenarioA,
      <<AllLines[1], AllLines[9], AllLines[11]>> }

SynInit ==
    /\ syn_loaded \in Templates
    /\ syn_config_list = syn_loaded
    /\ syn_calls = <<>>
    /\ FnIdle
    /\ ModIdle
    /\ AudIdle

CallConfigureInterface ==
    /\ Len(syn_calls) < MaxCalls
    /\ \E interface \in Interfaces, src \in AttributeSources :
          LET p == persistent_interface_data(src)
              sent == configure_interface(syn_config_list, interface,
                                          p.description, p.vlan, p.maximum)
          IN  /\ syn_calls' = Append(syn_calls,
                     [config_list |-> syn_config_list, interface |-> interface,
                      description |-> p.description, vlan |-> p.vlan,
                      maximum |-> p.maximum, sent |-> sent])
              \* the list is mutated in place: the caller's object is the sent list
              /\ syn_config_list' = sent
    /\ UNCHANGED <<syn_loaded, fnVars, modVars, audVars>>

SynNext == CallConfigureInterface

SpecSyn == SynInit /\ [][SynNext]_vars

---------------------------------------------------------------------------
(* Properties of configure_interface, checked under SpecSyn *)

\* C5: synthesis is side-effect-free and deterministic: after a call the
\* caller's template is what it was when loaded, two calls with identical
\* interface, description, vlan and maximum on the caller's template send
\* identical plans, and no plan holds the selector of an earlier interface.
C5_SideEffectFree ==
    /\ syn_config_list = syn_loaded
    /\ \A j, k \in 1..Len(syn_calls) :
          ( /\ syn_calls[j].interface = syn_calls[k].interface
            /\ syn_calls[j].description = syn_calls[k].description
            /\ syn_calls[j].vlan = syn_calls[k].vlan
            /\ syn_calls[j].maximum = syn_calls[k].maximum )
          => syn_calls[j].sent = syn_calls[k].sent
    /\ \A j, k \in 1..Len(syn_calls) :
          (j < k /\ syn_calls[j].interface # syn_calls[k].interface)
          => \A n \in 1..Len(syn_calls[k].sent) :
                 syn_calls[k].sent[n] # InterfaceCmd(syn_calls[j].interface)

\* C6: the plan of every call is the interface selector, then the template
\* lines as passed to the call, then the description iff it is non-empty, then
\* the 'switchport access vlan' line, then the 'switchport port-security
\* maximum' line; with no description extracted and none in the template
\* passed, the plan holds no description line.
C6_PlanShape ==
    \A k \in 1..Len(syn_calls) :
        LET c == syn_calls[k]
            n == Len(c.sent)
        IN  /\ c.sent = <<InterfaceCmd(c.interface)>> \o c.config_list
                        \o (IF c.description # <<>> THEN <<c.description>> ELSE <<>>)
                        \o <<VlanCmd(c.vlan)>> \o <<MaximumCmd(c.maximum)>>
            /\ c.sent[1] = <<"interface", SP>> \o c.interface
            /\ c.sent[n] = <<"switchport", SP, "port-security", SP, "maximum", SP>>
                           \o Format(c.maximum)
            /\ c.sent[n - 1] = <<"switchport", SP, "access", SP, "vlan", SP>>
                               \o Format(c.vlan)
            /\ ( /\ c.description = <<>>
                  /\ ~ \E m \in 1..Len(c.config_list) :
                          In(<<"description">>, c.config_list[m]) )
               => ~ \E m \in 1..n : In(<<"description">>, c.sent[m])

\* C6 witness: with a two-line template, one call kept a description and one
\* call, on an interface without description, sent none.
C6_Witness ==
    /\ Len(syn_loaded) = 2
    /\ Len(syn_calls) = 2
    /\ syn_calls[1].description = <<>>
    /\ syn_calls[1].vlan = PyInt(1)
    /\ Len(syn_calls[1].sent) = 5
    /\ syn_calls[2].description # <<>>
    /\ syn_calls[2].maximum = PyStr(<<"2">>)

---------------------------------------------------------------------------
(* modify_interfaces.py: module-level loading and main *)

SWITCH_NAME == <<"sw1">>

\* f.readline(): the text up to and including the first newline
RECURSIVE ReadLine(_)
ReadLine(text) ==
    IF text = <<>> THEN <<>>
    ELSE IF Head(text) = NL THEN <<NL>>
    ELSE <<Head(text)>> \o ReadLine(Tail(text))

\* the text of a file that holds the given lines
RECURSIVE FileText(_)
FileText(lines) ==
    IF lines = <<>> THEN <<>> ELSE Head(lines) \o <<NL>> \o FileText(Tail(lines))

\* INTERFACE_CONFIG.append(f.readline())
LoadInterfaceConfig(text) == <<ReadLine(text)>>

\* INTERFACE_LIST.append(f.readline().strip())
LoadInterfaceList(lines) == <<Strip(ReadLine(FileText(lines)))>>

\* the <interface_config> files: empty, one line, two lines
TemplateFiles == {<<>>, TemplateLine1, TemplateLine1 \o TemplateLine2}

\* the <interface_list> files: distinct interfaces, one per line
InterfaceFiles ==
    {f \in UNION {[1..n -> Interfaces] : n \in 0..MaxFileLines} :
        \A j, k \in 1..Len(f) : j # k => f[j] # f[k]}

\* what the device prints for 'sh run int <interface>'
DeviceResponses == {JoinLines(src) : src \in AttributeSources}

Prompt(switch) == switch \o <<"#">>

ShowRunCmd(interface) == <<"sh", SP, "run", SP, "int", SP>> \o interface

\* get_interface_config(interface, ssh), given the device's response
get_interface_config(switch, response) == SplitLines(Prompt(switch) \o <<NL>> \o response)

\* variant of main_push with the commented-out call live in both branches
main_push_Uncommented(pretend, config_list, interface, description, vlan, maximum) ==
    << [call |-> "send_config_set",
        cmds |-> configure_interface(config_list, interface, description, vlan, maximum)] >>

\* main, the if PRETEND / else of the loop body: the commands handed to the
\* session.  The call of configure_interface is commented out and the else
\* branch only prints, so neither branch sends anything.
main_push(pretend, config_list, interface, description, vlan, maximum) == <<>>

\* main, after the loop: 'write memory' is commented out; nothing is sent
main_write_memory == <<>>

\* main, the PRETEND branch: the entries written to the log
PretendEntries(interface, description, vlan, maximum) ==
    << InterfaceCmd(interface), description >>
    \o INTERFACE_CONFIG
    \o << VlanCmd(vlan), MaximumCmd(maximum) >>

StartEntries ==
    IF PRETEND
    THEN << <<"Starting script for ">> \o SWITCH_NAME \o <<" in PRETEND mode">>,
            <<"No changes will be made to the switch">> >>
    ELSE << <<"Starting script for ">> \o SWITCH_NAME \o <<" in LIVE mode">>,
            <<"Changes will be made to the switch">> >>

ErrUnexpected(switch) == <<"ERROR: Unexpected exception with ">> \o switch
GettingEntry(interface) == <<"Getting running config for interface ">> \o interface

ModInit ==
    /\ mod_pc = "start"
    /\ PRETEND \in BOOLEAN
    /\ interface_file \in InterfaceFiles
    /\ INTERFACE_LIST = LoadInterfaceList(interface_file)
    /\ \E text \in TemplateFiles : INTERFACE_CONFIG = LoadInterfaceConfig(text)
    /\ mod_i = 0
    /\ mod_sent = <<>>
    /\ mod_log = <<>>
    /\ mod_out = <<>>
    /\ mod_closed = FALSE
    /\ FnIdle
    /\ SynIdle
    /\ AudIdle

ModFrame ==
    UNCHANGED <<PRETEND, interface_file, INTERFACE_LIST, fnVars, synVars, audVars>>

\* check_host(SWITCH_NAME) is False: log and sys.exit(0)
ModCheckHostFails ==
    /\ mod_pc = "start"
    /\ mod_log' = mod_log \o StartEntries
                  \o << <<"ERROR: nslookup failed for ">> \o SWITCH_NAME >>
    /\ mod_pc' = "exited"
    /\ UNCHANGED <<INTERFACE_CONFIG, mod_i, mod_sent, mod_out, mod_closed>>
    /\ ModFrame

ModCheckHostPasses ==
    /\ mod_pc = "start"
    /\ mod_log' = mod_log \o StartEntries
                  \o << <<"nslookup passed for ">> \o SWITCH_NAME >>
    /\ mod_pc' = "connect"
    /\ UNCHANGED <<INTERFACE_CONFIG, mod_i, mod_sent, mod_out, mod_closed>>
    /\ ModFrame

\* netmiko.ConnectHandler(...) returns a session
ModConnect ==
    /\ mod_pc = "connect"
    /\ mod_pc' = "enable"
    /\ UNCHANGED <<INTERFACE_CONFIG, mod_i, mod_sent, mod_log, mod_out, mod_closed>>
    /\ ModFrame

\* netmiko.ConnectHandler(...) raises: the except clause logs, main returns
ModConnectRaises ==
    /\ mod_pc = "connect"
    /\ mod_log' = Append(mod_log, ErrUnexpected(SWITCH_NAME))
    /\ mod_pc' = "done"
    /\ UNCHANGED <<INTERFACE_CONFIG, mod_i, mod_sent, mod_out, mod_closed>>
    /\ ModFrame

ModEnable ==
    /\ mod_pc = "enable"
    /\ mod_log' = Append(mod_log, <<"Establishing connection to ">> \o SWITCH_NAME)
    /\ mod_pc' = "loop"
    /\ mod_i' = 1
    /\ UNCHANGED <<INTERFACE_CONFIG, mod_sent, mod_out, mod_closed>>
    /\ ModFrame

ModEnableRaises ==
    /\ mod_pc = "enable"
    /\ mod_log' = mod_log \o << <<"Establishing connection to ">> \o SWITCH_NAME,
                                ErrUnexpected(SWITCH_NAME) >>
    /\ mod_pc' = "done"
    /\ UNCHANGED <<INTERFACE_CONFIG, mod_i, mod_sent, mod_out, mod_closed>>
    /\ ModFrame

\* one iteration of "for interface in INTERFACE_LIST" that raises nothing
ModInterface ==
    /\ mod_pc = "loop"
    /\ mod_i <= Len(INTERFACE_LIST)
    /\ \E response \in DeviceResponses :
          LET interface == INTERFACE_LIST[mod_i]
              running_config == get_interface_config(SWITCH_NAME, response)
              p == persistent_interface_data(running_config)
              query == [call |-> "send_command_expect", cmds |-> <<ShowRunCmd(interface)>>]
              pushed == main_push(PRETEND, INTERFACE_CONFIG, interface,
                                  p.description, p.vlan, p.maximum)
              recorded == IF PRETEND
                          THEN PretendEntries(interface, p.description, p.vlan, p.maximum)
                          ELSE <<>>
          IN  /\ ~p.raised
              /\ mod_sent' = Append(mod_sent, query) \o pushed
              /\ mod_log' = mod_log
                    \o << GettingEntry(interface),
                          <<"Saving description: ">> \o p.description
                             \o <<", vlan: ">> \o Format(p.vlan)
                             \o <<", max: ">> \o Format(p.maximum)
                             \o <<", from interface ">> \o interface >>
                    \o (IF PRETEND
                        THEN << <<"The following commands would have been sent to the switch">> >>
                             \o recorded
                        ELSE <<>>)
              /\ mod_out' = Append(mod_out,
                    [interface |-> interface, description |-> p.description,
                     vlan |-> p.vlan, maximum |-> p.maximum,
                     recorded |-> recorded, pushed |-> pushed])
              \* a configure_interface call would leave its list in INTERFACE_CONFIG
              /\ INTERFACE_CONFIG' = IF pushed = <<>> THEN INTERFACE_CONFIG
                                     ELSE pushed[Len(pushed)].cmds
    /\ mod_i' = mod_i + 1
    /\ UNCHANGED <<mod_pc, mod_closed>>
    /\ ModFrame

\* an iteration in which the session raises: in find_prompt (nothing sent) or
\* in send_command_expect (the query was sent); or the extraction raises.
\* The except clause encloses the whole loop: main logs and returns.
ModInterfaceRaises ==
    /\ mod_pc = "loop"
    /\ mod_i <= Len(INTERFACE_LIST)
    /\ LET interface == INTERFACE_LIST[mod_i]
           query == [call |-> "send_command_expect", cmds |-> <<ShowRunCmd(interface)>>]
       IN  /\ \/ mod_sent' = mod_sent
              \/ mod_sent' = Append(mod_sent, query)
           /\ mod_log' = mod_log \o <<GettingEntry(interface), ErrUnexpected(SWITCH_NAME)>>
    /\ mod_pc' = "done"
    /\ UNCHANGED <<INTERFACE_CONFIG, mod_i, mod_out, mod_closed>>
    /\ ModFrame

\* after the loop: (write memory is commented out) ssh.disconnect()
ModDisconnect ==
    /\ mod_pc = "loop"
    /\ mod_i > Len(INTERFACE_LIST)
    /\ mod_sent' = mod_sent \o main_write_memory
    /\ mod_closed' = TRUE
    /\ mod_pc' = "done"
    /\ UNCHANGED <<INTERFACE_CONFIG, mod_i, mod_log, mod_out>>
    /\ ModFrame

ModDisconnectRaises ==
    /\ mod_pc = "loop"
    /\ mod_i > Len(INTERFACE_LIST)
    /\ mod_sent' = mod_sent \o main_write_memory
    /\ mod_log' = Append(mod_log, ErrUnexpected(SWITCH_NAME))
    /\ mod_pc' = "done"
    /\ UNCHANGED <<INTERFACE_CONFIG, mod_i, mod_out, mod_closed>>
    /\ ModFrame

ModNext ==
    \/ ModCheckHostFails
    \/ ModCheckHostPasses
    \/ ModConnect
    \/ ModConnectRaises
    \/ ModEnable
    \/ ModEnableRaises
    \/ ModInterface
    \/ ModInterfaceRaises
    \/ ModDisconnect
    \/ ModDisconnectRaises

---------------------------------------------------------------------------
(* workstation-interface-check.py: get_workstation_interfaces, *)
(* get_interface_configs and main                               *)

\* the for loop of get_workstation_interfaces over the tokens of the output
RECURSIVE GiTokens(_)
GiTokens(output) ==
    IF output = <<>> THEN <<>>
    ELSE (IF Find(Head(output), <<"Gi">>) # -1
          THEN <<Remove(Head(output), ",")>> ELSE <<>>)
         \o GiTokens(Tail(output))

\* get_workstation_interfaces(ssh), given the device's response
get_workstation_interfaces(switch, response) ==
    GiTokens(Split(Prompt(switch) \o <<NL>> \o response))

\* configs[key] = value on a dict kept in insertion order
DictSet(d, key, value) ==
    IF \E n \in 1..Len(d) : d[n].key = key
    THEN [n \in 1..Len(d) |-> IF d[n].key = key THEN [key |-> key, value |-> value]
                                               ELSE d[n]]
    ELSE Append(d, [key |-> key, value |-> value])

\* what the device prints for "sh vl br | i (W-I|WKSTN|WKST)"
VlanBriefResponses ==
    { <<>>,
      Words(<<"50", "W-I-VOICE", "active">>) \o <<SP>> \o Gi1,
      Words(<<"50", "WKSTN", "active">>) \o <<SP>> \o Gi1 \o <<",", SP>> \o Gi2 }

\* what the device prints for 'sh run int <interface>': the first interface
\* meets the baseline, every other one also sets a speed
RunConfigResponse(interface) ==
    IF interface = Gi1
    THEN JoinLines(<<AllLines[1]>> \o SubSeq(AllLines, 3, 7))
    ELSE JoinLines(<<<<"interface", SP>> \o interface>> \o SubSeq(AllLines, 3, 8))

\* main, "for interface in configs.keys()": the rows written, up to a raise
RECURSIVE Rows(_, _)
Rows(switch, configs) ==
    IF configs = <<>> THEN [raised |-> FALSE, rows |-> <<>>]
    ELSE LET interface == Head(configs).key
             g == get_id_and_template(Head(configs).value)
             rest == Rows(switch, Tail(configs))
             row == [switch |-> switch, interface |-> interface, vlan |-> g.vlan,
                     template |-> g.template,
                     flag |-> IF check_interface_config(Head(configs).value)
                              THEN "Y" ELSE "N"]
         IN  IF g.raised THEN [raised |-> TRUE, rows |-> <<>>]
             ELSE [raised |-> rest.raised, rows |-> <<row>> \o rest.rows]

SwitchNames == << <<"sw1">>, <<"sw2">>, <<"sw3">>, <<"sw4">>, <<"sw5">> >>

CurrentEntry(switch) == <<"Current switch: ">> \o switch
ErrHostname(switch) == <<"ERROR: Check hostname for ">> \o switch

AudInit ==
    /\ aud_pc = "loop"
    /\ \E n \in 0..MaxSwitches : switch_list = SubSeq(SwitchNames, 1, n)
    /\ aud_idx = 1
    /\ aud_interfaces = <<>>
    /\ aud_k = 0
    /\ aud_configs = <<>>
    /\ aud_report = <<>>
    /\ aud_log = <<>>
    /\ aud_seen = <<>>
    /\ FnIdle
    /\ SynIdle
    /\ ModIdle

AudFrame == UNCHANGED <<switch_list, fnVars, synVars, modVars>>

\* the except clause (or the else of check_host): log, go on with the next switch
AudSkip(entry) ==
    /\ aud_log' = Append(aud_log, entry)
    /\ aud_idx' = aud_idx + 1
    /\ aud_pc' = "loop"
    /\ aud_interfaces' = <<>>
    /\ aud_k' = 0
    /\ aud_configs' = <<>>

\* check_host(switch) is False
AudCheckHostFails ==
    /\ aud_pc = "loop"
    /\ aud_idx <= Len(switch_list)
    /\ aud_log' = aud_log \o <<CurrentEntry(switch_list[aud_idx]),
                               ErrHostname(switch_list[aud_idx])>>
    /\ aud_idx' = aud_idx + 1
    /\ UNCHANGED <<aud_pc, aud_interfaces, aud_k, aud_configs, aud_report, aud_seen>>
    /\ AudFrame

AudCheckHostPasses ==
    /\ aud_pc = "loop"
    /\ aud_idx <= Len(switch_list)
    /\ aud_log' = Append(aud_log, CurrentEntry(switch_list[aud_idx]))
    /\ aud_pc' = "connect"
    /\ UNCHANGED <<aud_idx, aud_interfaces, aud_k, aud_configs, aud_report, aud_seen>>
    /\ AudFrame

AudConnect ==
    /\ aud_pc = "connect"
    /\ aud_pc' = "enable"
    /\ UNCHANGED <<aud_idx, aud_interfaces, aud_k, aud_configs, aud_report, aud_log,
                   aud_seen>>
    /\ AudFrame

AudConnectRaises ==
    /\ aud_pc = "connect"
    /\ AudSkip(ErrUnexpected(switch_list[aud_idx]))
    /\ UNCHANGED <<aud_report, aud_seen>>
    /\ AudFrame

AudEnable ==
    /\ aud_pc = "enable"
    /\ aud_pc' = "interfaces"
    /\ UNCHANGED <<aud_idx, aud_interfaces, aud_k, aud_configs, aud_report, aud_log,
                   aud_seen>>
    /\ AudFrame

AudEnableRaises ==
    /\ aud_pc = "enable"
    /\ AudSkip(ErrUnexpected(switch_list[aud_idx]))
    /\ UNCHANGED <<aud_report, aud_seen>>
    /\ AudFrame

AudGetInterfaces ==
    /\ aud_pc = "interfaces"
    /\ \E response \in VlanBriefResponses :
          aud_interfaces' = get_workstation_interfaces(switch_list[aud_idx], response)
    /\ aud_seen' = Append(aud_seen, [switch |-> switch_list[aud_idx],
                                     interfaces |-> aud_interfaces'])
    /\ aud_k' = 1
    /\ aud_configs' = <<>>
    /\ aud_pc' = "configs"
    /\ UNCHANGED <<aud_idx, aud_report, aud_log>>
    /\ AudFrame

AudGetInterfacesRaises ==
    /\ aud_pc = "interfaces"
    /\ AudSkip(ErrUnexpected(switch_list[aud_idx]))
    /\ UNCHANGED <<aud_report, aud_seen>>
    /\ AudFrame

\* one iteration of the for loop of get_interface_configs
AudGetConfig ==
    /\ aud_pc = "configs"
    /\ aud_k <= Len(aud_interfaces)
    /\ LET i == aud_interfaces[aud_k]
           result == SplitLines(Prompt(switch_list[aud_idx]) \o <<NL>>
                                \o RunConfigResponse(i))
       IN  aud_configs' = DictSet(aud_configs, i, result)
    /\ aud_k' = aud_k + 1
    /\ UNCHANGED <<aud_pc, aud_idx, aud_interfaces, aud_report, aud_log, aud_seen>>
    /\ AudFrame

AudGetConfigRaises ==
    /\ aud_pc = "configs"
    /\ aud_k <= Len(aud_interfaces)
    /\ AudSkip(ErrUnexpected(switch_list[aud_idx]))
    /\ UNCHANGED <<aud_report, aud_seen>>
    /\ AudFrame

\* get_interface_configs returned: the rows of this switch are written
AudWriteRows ==
    /\ aud_pc = "configs"
    /\ aud_k > Len(aud_interfaces)
    /\ LET r == Rows(switch_list[aud_idx], aud_configs)
       IN  /\ aud_report' = aud_report \o r.rows
           /\ IF r.raised
              THEN AudSkip(ErrUnexpected(switch_list[aud_idx]))
              ELSE /\ aud_pc' = "disconnect"
                   /\ UNCHANGED <<aud_idx, aud_interfaces, aud_k, aud_configs, aud_log>>
    /\ UNCHANGED aud_seen
    /\ AudFrame

AudDisconnect ==
    /\ aud_pc = "disconnect"
    /\ aud_idx' = aud_idx + 1
    /\ aud_pc' = "loop"
    /\ aud_interfaces' = <<>>
    /\ aud_k' = 0
    /\ aud_configs' = <<>>
    /\ UNCHANGED <<aud_report, aud_log, aud_seen>>
    /\ AudFrame

\* ssh.disconnect() raises, after the rows were written
AudDisconnectRaises ==
    /\ aud_pc = "disconnect"
    /\ AudSkip(ErrUnexpected(switch_list[aud_idx]))
    /\ UNCHANGED <<aud_report, aud_seen>>
    /\ AudFrame

\* the for loop is exhausted: main returns
AudReturn ==
    /\ aud_pc = "loop"
    /\ aud_idx > Len(switch_list)
    /\ aud_pc' = "done"
    /\ UNCHANGED <<aud_idx, aud_interfaces, aud_k, aud_configs, aud_report, aud_log,
                   aud_seen>>
    /\ AudFrame

AudNext ==
    \/ AudCheckHostFails
    \/ AudCheckHostPasses
    \/ AudConnect
    \/ AudConnectRaises
    \/ AudEnable
    \/ AudEnableRaises
    \/ AudGetInterfaces
    \/ AudGetInterfacesRaises
    \/ AudGetConfig
    \/ AudGetConfigRaises
    \/ AudWriteRows
    \/ AudDisconnect
    \/ AudDisconnectRaises
    \/ AudReturn

---------------------------------------------------------------------------
(* The two programs: a run is one of them *)

Init == AudInit \/ ModInit

Next == AudNext \/ ModNext

Spec == Init /\ [][Next]_vars

---------------------------------------------------------------------------
(* Properties of the two runs, checked under Spec *)

\* how many times an entry was written to a log
Count(log, entry) == Cardinality({n \in 1..Len(log) : log[n] = entry})

\* the number a maximum stands for: the int default, or the token read as a number
NumberOf(v) ==
    IF v.type = "int" THEN v.int
    ELSE CHOOSE n \in 0..99 : <<ToString(n)>> = v.str

\* a failure was logged for the switch
FailureLogged(switch) ==
    \E n \in 1..Len(aud_log) : aud_log[n] \in {ErrHostname(switch), ErrUnexpected(switch)}

RowsOf(switch) == {n \in 1..Len(aud_report) : aud_report[n].switch = switch}

\* C1: whichever targets fail, every target of the list is attempted exactly
\* once: every switch of the audit run's switch list, and, once the session of
\* the reconfiguration run is up, every interface of its interface list.
C1_EveryTargetAttemptedOnce ==
    /\ aud_pc = "done" =>
          \A k \in 1..Len(switch_list) :
              Count(aud_log, CurrentEntry(switch_list[k])) = 1
    /\ (mod_pc = "done" /\ mod_i >= 1) =>
          \A k \in 1..Len(interface_file) :
              Count(mod_log, GettingEntry(interface_file[k])) = 1

\* C1, the audit run alone (holds): every switch is attempted exactly once and
\* the run reaches its end whichever switches fail.
C1_AuditRunOnly ==
    /\ aud_pc = "done" =>
          \A k \in 1..Len(switch_list) :
              Count(aud_log, CurrentEntry(switch_list[k])) = 1
    /\ (aud_pc = "loop" /\ aud_idx <= Len(switch_list)) =>
          \A k \in 1..Len(switch_list) :
              Count(aud_log, CurrentEntry(switch_list[k])) = IF k < aud_idx THEN 1 ELSE 0

\* C2: at the end of an audit run the report holds no row of a switch for
\* which a failure was logged, and every interface row of each other switch.
C2_ReportOnlyUnfailedSwitches ==
    aud_pc = "done" =>
        \A k \in 1..Len(switch_list) :
            LET switch == switch_list[k]
            IN  /\ FailureLogged(switch) => RowsOf(switch) = {}
                /\ ~FailureLogged(switch) =>
                      \A m \in 1..Len(aud_seen) :
                          aud_seen[m].switch = switch =>
                              \A j \in 1..Len(aud_seen[m].interfaces) :
                                  \E n \in RowsOf(switch) :
                                      aud_report[n].interface = aud_seen[m].interfaces[j]

\* C2, failures up to the writing of the rows (holds): while a switch is being
\* processed and its rows are not yet written, the report holds no row of it;
\* a switch without logged failure has all its rows.
C2_NoRowBeforeRowsWritten ==
    /\ aud_pc \in {"connect", "enable", "interfaces", "configs"} =>
          RowsOf(switch_list[aud_idx]) = {}
    /\ aud_pc = "done" =>
          \A m \in 1..Len(aud_seen) :
              ~FailureLogged(aud_seen[m].switch) =>
                  \A j \in 1..Len(aud_seen[m].interfaces) :
                      \E n \in RowsOf(aud_seen[m].switch) :
                          aud_report[n].interface = aud_seen[m].interfaces[j]

\* C3: in PRETEND mode every command handed to the session is the read-only
\* 'sh run int <interface>' query of an interface of the list: no command set
\* and no 'write memory' is sent, and the computed commands are in the log.
C3_PretendSendsOnlyQueries ==
    (PRETEND /\ mod_pc # "idle") =>
        /\ \A n \in 1..Len(mod_sent) :
              /\ mod_sent[n].call = "send_command_expect"
              /\ \E i \in 1..Len(INTERFACE_LIST) :
                    mod_sent[n].cmds = << <<"sh", SP, "run", SP, "int", SP>>
                                          \o INTERFACE_LIST[i] >>
        /\ \A m \in 1..Len(mod_out) :
              /\ mod_out[m].pushed = <<>>
              /\ \A j \in 1..Len(mod_out[m].recorded) :
                    Count(mod_log, mod_out[m].recorded[j]) >= 1
              /\ Count(mod_log, VlanCmd(mod_out[m].vlan)) >= 1
              /\ Count(mod_log, InterfaceCmd(mod_out[m].interface)) >= 1

\* C3 witness: a PRETEND run that read an interface with a description,
\* logged its commands and closed the session, having sent one query.
C3_Witness ==
    /\ PRETEND
    /\ mod_pc = "done"
    /\ mod_closed
    /\ Len(mod_out) = 1
    /\ mod_out[1].description # <<>>
    /\ Len(INTERFACE_CONFIG[1]) > 0
    /\ Count(mod_log, MaximumCmd(mod_out[1].maximum)) = 1
    /\ Len(mod_sent) = 1

\* C4: in LIVE mode, when the session was closed, the plan of every interface
\* read was sent and, after them, 'write memory'.
C4_LivePushesAndPersists ==
    (~PRETEND /\ mod_pc = "done" /\ mod_closed) =>
        /\ \A m \in 1..Len(mod_out) :
              \E n \in 1..Len(mod_sent) :
                  /\ mod_sent[n].call = "send_config_set"
                  /\ mod_sent[n].cmds[1] = InterfaceCmd(mod_out[m].interface)
        /\ \E n \in 1..Len(mod_sent) :
              /\ mod_sent[n].call = "send_command_expect"
              /\ mod_sent[n].cmds = << <<"write", SP, "memory">> >>
              /\ \A j \in 1..Len(mod_sent) :
                    mod_sent[j].call = "send_config_set" => j < n

\* C9: every 'switchport port-security maximum' command of the output for an
\* interface, recorded in the log or pushed to the device, carries the
\* maximum extracted from the interface plus 1.
C9_MaximumIsExtractedPlusOne ==
    \A m \in 1..Len(mod_out) :
        LET o == mod_out[m]
            expected == <<ToString(NumberOf(o.maximum) + 1)>>
        IN  /\ \A j \in 1..Len(o.recorded) :
                  In(BASE_CONFIG[2], o.recorded[j]) => FinalToken(o.recorded[j]) = expected
            /\ \A n \in 1..Len(o.pushed) :
                  \A j \in 1..Len(o.pushed[n].cmds) :
                      In(BASE_CONFIG[2], o.pushed[n].cmds[j])
                          => FinalToken(o.pushed[n].cmds[j]) = expected

===========================================================================
